---- MODULE Spec2Model ----
(***************************************************************************)
(* PolyVoice transcription API (backend/main.py, backend/start.py).        *)
(*                                                                         *)
(* The model follows the request handlers of main.py step by step.  Each   *)
(* uvicorn worker process runs one asyncio event loop; a coroutine keeps   *)
(* the loop until it awaits or returns, so the synchronous OpenAI call of  *)
(* transcribe_audio_v1 is made while the loop is held.  The temporary      *)
(* directory is shared by all worker processes.                            *)
(*                                                                         *)
(* Units: file sizes are bytes, estimated_minutes is in hundredths of a    *)
(* minute (2 decimals), estimated_cost is in millionths of a dollar        *)
(* (6 decimals).                                                           *)
(***************************************************************************)
EXTENDS Integers, Sequences, FiniteSets, TLC

\* ------------------------------------------------------------------ bounds
MaxRequests == 2

Requests == 1..MaxRequests

\* The names tempfile can give: never fewer than the files the requests stage.
Paths == 1..MaxRequests

\* start.py:18  WORKERS, 1 unless the environment sets it
WorkerSettings == {1, 2}
Workers == 1..2

\* 0 stands for None: no request, no path, no file.
None == 0

VARIABLES
    workers,         \* start.py: the WORKERS setting, the number of event loops
    pc,              \* where each request's handler stands
    endpoint,        \* "health" or "transcribe"
    worker,          \* the worker process that serves the request
    filename,        \* audio.filename, a sequence of characters
    size,            \* len(audio_data): the bytes audio.read() returns
    disconnected,    \* the caller went away after the file was staged
    loop,            \* per worker: the request whose coroutine holds the loop
    fs,              \* the temporary directory: path -> request whose bytes it holds
    file_extension,  \* the handler's local file_extension
    temp_file_path,  \* the handler's local temp_file.name / temp_file_path
    calls,           \* how often client.audio.transcriptions.create was invoked
    transcription,   \* transcription.text as the external service returned it
    result,          \* the TranscriptionResponse held while finally runs
    exc,             \* the exception the handler is leaving with
    response         \* the HTTP response sent for the request

vars == <<workers, pc, endpoint, worker, filename, size, disconnected, loop, fs,
          file_extension, temp_file_path, calls, transcription, result, exc,
          response>>

\* ------------------------------------------------------- filenames (pure)
Upper == <<"A","B","C","D","E","F","G","H","I","J","K","L","M",
           "N","O","P","Q","R","S","T","U","V","W","X","Y","Z">>
LowerCase == <<"a","b","c","d","e","f","g","h","i","j","k","l","m",
               "n","o","p","q","r","s","t","u","v","w","x","y","z">>

\* str.lower() on one character
LowerChar(c) ==
    IF \E i \in 1..Len(Upper) : Upper[i] = c
    THEN LowerCase[CHOOSE i \in 1..Len(Upper) : Upper[i] = c]
    ELSE c

\* str.lower()
Lower(s) == [i \in 1..Len(s) |-> LowerChar(s[i])]

\* s.split('.')[-1]: what follows the last '.', the whole of s when it has none
LastDot(s) ==
    IF \E i \in 1..Len(s) : s[i] = "."
    THEN CHOOSE i \in 1..Len(s) : s[i] = "." /\ \A j \in (i + 1)..Len(s) : s[j] # "."
    ELSE 0

SplitLast(s) == SubSeq(s, LastDot(s) + 1, Len(s))

Extension_CaseSensitive(name) == <<".">> \o SplitLast(name)

\* main.py:129  '.' + audio.filename.split('.')[-1].lower()
Extension(name) == <<".">> \o Lower(SplitLast(name))

SUPPORTED_FORMATS ==
    { <<".","m","4","a">>, <<".","m","p","3">>, <<".","w","a","v">>,
      <<".","o","g","g">>, <<".","w","e","b","m">> }

\* ------------------------------------------------------- estimates (pure)
\* round(): the integer nearest to num/den, an exact half going to the even one
RoundHalfEven(num, den) ==
    LET q == num \div den
        r == num % den
    IN  IF 2 * r > den \/ (2 * r = den /\ q % 2 = 1) THEN q + 1 ELSE q

\* main.py:157-158  max(file_size_mb / 0.5, 0.1) is n / 2^19 minutes, or 0.1
BytesPerMinute == 524288
BelowMinimum(n) == n * 10 < BytesPerMinute

\* main.py:185  round(estimated_minutes, 2), in hundredths of a minute
EstimatedMinutes(n) ==
    IF BelowMinimum(n) THEN 10 ELSE RoundHalfEven(n * 100, BytesPerMinute)

\* The cost computed from the minutes already rounded for the report:
\* round(round(estimated_minutes, 2) * 0.003, 6) = 30 millionths per hundredth.
EstimatedCostOfReported(n) == 30 * EstimatedMinutes(n)

\* main.py:175,184  round(estimated_minutes * 0.003, 6), in millionths of a
\* dollar: n / 2^19 * 0.003 * 10^6 = n * 375 / 2^16.  (Exact for every size
\* that is not an odd multiple of 32768 bytes; there the exact product is a
\* half and the binary rounding of the product decides. SizeCases has none.)
EstimatedCost(n) ==
    IF BelowMinimum(n) THEN 300 ELSE RoundHalfEven(n * 375, 65536)

\* ------------------------------------------------------------- responses
NoResponse == [status |-> 0]

\* main.py:209-218  JSONResponse(status_code, {error: exc.detail, detail: "HTTP <code>"})
http_exception_handler(status_code, detail) ==
    [status |-> status_code, error |-> detail, detail |-> <<"HTTP", status_code>>]

HTTP_400_BAD_REQUEST == 400
HTTP_500_INTERNAL_SERVER_ERROR == 500

\* main.py:117-121
NoFileRejection ==
    http_exception_handler(HTTP_400_BAD_REQUEST, <<"No audio file provided">>)

\* main.py:130-134
UnsupportedFormatRejection ==
    http_exception_handler(HTTP_400_BAD_REQUEST,
        <<"Unsupported audio format. Supported formats: ", SUPPORTED_FORMATS>>)

EmptyFileRejection_422 ==
    http_exception_handler(422, <<"Empty audio file">>)

\* main.py:143-147
EmptyFileRejection ==
    http_exception_handler(HTTP_400_BAD_REQUEST, <<"Empty audio file">>)

TranscriptionFailed_NoMessage(msg) ==
    http_exception_handler(HTTP_500_INTERNAL_SERVER_ERROR,
        <<"Transcription failed: ", "">>)

\* main.py:200-205  except Exception as e: 500, "Transcription failed: {str(e)}"
TranscriptionFailed(msg) ==
    http_exception_handler(HTTP_500_INTERNAL_SERVER_ERROR,
        <<"Transcription failed: ", msg>>)

MODEL == "gpt-4o-mini-transcribe"

\* main.py:180-186  TranscriptionResponse(...); processing_time_ms is wall-clock
\* time and is left out.
TranscriptionResponse(text, n) ==
    [status |-> 200, text |-> text, model_used |-> MODEL,
     estimated_cost |-> EstimatedCost(n), estimated_minutes |-> EstimatedMinutes(n)]

\* main.py:97-102
HealthResponse == [status |-> 200, health |-> "healthy"]

\* ------------------------------------------------- failures of the environment
NoException == "none"
CreateError == "No usable temporary file name found"
WriteError == "No space left on device"
OpenError == "No such file or directory"
ApiError == "Connection error."
ValidationError == "validation error for TranscriptionResponse"
UnlinkError == "Permission denied"

\* The external service is a function of the audio it is sent: the text of the
\* audio of request q; NoText where no text was returned.
Transcript(q) == <<"transcript of audio", q>>
NoText == <<>>

\* ------------------------------------------------------------------ inputs
NoName == <<>>
Uploads ==
    { <<NoName, 0>>,
      <<<<"n","o","t","e","s",".","t","x","t">>, 0>>,
      <<<<"F",".","M","P","3">>, 0>>,
      <<<<"F",".","M","P","3">>, 64725>> }

FilenameCases ==
    { NoName,
      <<"r","e","c","o","r","d","i","n","g">>,
      <<"m","4","a">>,
      <<"f",".","m","4","a">>, <<"f",".","m","p","3">>, <<"f",".","w","a","v">>,
      <<"f",".","o","g","g">>, <<"f",".","w","e","b","m">>,
      <<"F",".","M","P","3">>, <<"a",".","W","e","B","m">>, <<"A",".","O","G","G">>,
      <<"v",".","M","4","a">>, <<"x",".","W","A","V">>,
      <<"a",".","b",".","w","a","v">>,
      <<"n","o","t","e","s",".","t","x","t">>,
      <<"f",".","m","p","3",".","t","x","t">>,
      <<"x",".">> }
SizeCases == {0, 1, 10240, 52428, 52429, 64725, 1048576, 1638400, 2000000}

\* ------------------------------------------------------------------- state
Init ==
    /\ workers \in WorkerSettings
    /\ pc = [r \in Requests |-> "idle"]
    /\ endpoint = [r \in Requests |-> "none"]
    /\ worker = [r \in Requests |-> None]
    /\ filename = [r \in Requests |-> NoName]
    /\ size = [r \in Requests |-> 0]
    /\ disconnected = [r \in Requests |-> FALSE]
    /\ loop = [w \in Workers |-> None]
    /\ fs = [p \in Paths |-> None]
    /\ file_extension = [r \in Requests |-> <<>>]
    /\ temp_file_path = [r \in Requests |-> None]
    /\ calls = [r \in Requests |-> 0]
    /\ transcription = [r \in Requests |-> NoText]
    /\ result = [r \in Requests |-> NoResponse]
    /\ exc = [r \in Requests |-> NoException]
    /\ response = [r \in Requests |-> NoResponse]

inputs == <<workers, endpoint, worker, filename, size>>
locals == <<file_extension, temp_file_path, transcription, result>>

\* The coroutine of r may run: its worker's loop is free, or r holds it.
LoopFree(r) == loop[worker[r]] = None
Holds(r) == loop[worker[r]] = r

\* The handler ends with `resp`: the response goes out and the loop is free again.
Finish(r, resp) ==
    /\ pc' = [pc EXCEPT ![r] = "done"]
    /\ response' = [response EXCEPT ![r] = resp]
    /\ loop' = [loop EXCEPT ![worker[r]] = None]

\* main.py:200-205  an exception leaves the handler through `except Exception`
Fail(r, msg) ==
    /\ exc' = [exc EXCEPT ![r] = msg]
    /\ Finish(r, TranscriptionFailed(msg))

\* ----------------------------------------------------------------- actions
\* A request reaches one of the worker processes (start.py:18,29-39).  Requests
\* are numbered in the order they arrive and workers in the order they first
\* serve one.
Receive(r, uploads) ==
    /\ pc[r] = "idle"
    /\ \A q \in Requests : q < r => pc[q] # "idle"
    /\ \E w \in 1..workers :
         /\ \A v \in 1..(w - 1) : \E q \in Requests : worker[q] = v
         /\ worker' = [worker EXCEPT ![r] = w]
    /\ \/ /\ endpoint' = [endpoint EXCEPT ![r] = "health"]
          /\ UNCHANGED <<filename, size>>
       \/ /\ endpoint' = [endpoint EXCEPT ![r] = "transcribe"]
          /\ \E u \in uploads :
               /\ filename' = [filename EXCEPT ![r] = u[1]]
               /\ size' = [size EXCEPT ![r] = u[2]]
    /\ pc' = [pc EXCEPT ![r] = "queued"]
    /\ UNCHANGED <<workers, disconnected, loop, fs, locals, exc, calls, response>>

Arrive(r) == Receive(r, Uploads)

ArriveCase(r) == Receive(r, FilenameCases \X SizeCases)

\* The caller goes away while its request holds a staged file.  (Before that a
\* disconnection shows only as the cancellation below.)
Disconnect(r) ==
    /\ pc[r] \in {"write", "call", "waiting", "cleanup"}
    /\ ~disconnected[r]
    /\ disconnected' = [disconnected EXCEPT ![r] = TRUE]
    /\ UNCHANGED <<inputs, pc, loop, fs, locals, exc, calls, response>>

\* main.py:92-102  health_check: no await, runs to its return
health_check(r) ==
    /\ pc[r] = "queued"
    /\ endpoint[r] = "health"
    /\ LoopFree(r)
    /\ Finish(r, HealthResponse)
    /\ UNCHANGED <<inputs, disconnected, fs, locals, exc, calls>>

\* main.py:115-142  the validations, up to `await audio.read()`
Validate(r) ==
    /\ pc[r] = "queued"
    /\ endpoint[r] = "transcribe"
    /\ LoopFree(r)
    /\ IF filename[r] = NoName
       THEN /\ Finish(r, NoFileRejection)
            /\ UNCHANGED file_extension
       ELSE IF Extension(filename[r]) \notin SUPPORTED_FORMATS
       THEN /\ Finish(r, UnsupportedFormatRejection)
            /\ UNCHANGED file_extension
       ELSE /\ file_extension' = [file_extension EXCEPT ![r] = Extension(filename[r])]
            /\ pc' = [pc EXCEPT ![r] = "read"]
            /\ UNCHANGED <<loop, response>>
    /\ UNCHANGED <<inputs, disconnected, fs, temp_file_path, transcription, result,
                   exc, calls>>

\* The caller goes away and its task is cancelled at the await (main.py:142):
\* CancelledError is no Exception, so nothing answers and nothing was staged.
Cancelled(r) ==
    /\ pc[r] = "read"
    /\ LoopFree(r)
    /\ pc' = [pc EXCEPT ![r] = "cancelled"]
    /\ UNCHANGED <<inputs, disconnected, loop, fs, locals, exc, calls, response>>

ReadAudio_StageFirst(r) ==
    /\ pc[r] = "read"
    /\ LoopFree(r)
    /\ IF size[r] = 0
       THEN /\ \E p \in {q \in Paths : fs[q] = None} :
                  /\ fs' = [fs EXCEPT ![p] = r]
                  /\ temp_file_path' = [temp_file_path EXCEPT ![r] = p]
            /\ Finish(r, EmptyFileRejection)
       ELSE /\ pc' = [pc EXCEPT ![r] = "create"]
            /\ loop' = [loop EXCEPT ![worker[r]] = r]
            /\ UNCHANGED <<response, fs, temp_file_path>>
    /\ UNCHANGED <<inputs, disconnected, file_extension, transcription, result,
                   exc, calls>>

\* main.py:142-147  audio.read() returns; from here to the return there is no
\* await, so the coroutine keeps its worker's loop.
ReadAudio(r) ==
    /\ pc[r] = "read"
    /\ LoopFree(r)
    /\ IF size[r] = 0
       THEN /\ Finish(r, EmptyFileRejection)
       ELSE /\ pc' = [pc EXCEPT ![r] = "create"]
            /\ loop' = [loop EXCEPT ![worker[r]] = r]
            /\ UNCHANGED response
    /\ UNCHANGED <<inputs, disconnected, fs, locals, exc, calls>>

UsablePaths_NotExclusive(f) == Paths

\* tempfile's mkstemp opens with O_EXCL: only a name no file has is used
UsablePaths(f) == {p \in Paths : f[p] = None}

\* main.py:150  NamedTemporaryFile(delete=False, suffix=file_extension)
CreateTemp(r) ==
    /\ pc[r] = "create"
    /\ Holds(r)
    /\ \E p \in UsablePaths(fs) :
         /\ fs' = [fs EXCEPT ![p] = r]
         /\ temp_file_path' = [temp_file_path EXCEPT ![r] = p]
    /\ pc' = [pc EXCEPT ![r] = "write"]
    /\ UNCHANGED <<inputs, disconnected, loop, file_extension, transcription, result,
                   exc, calls, response>>

\* main.py:150  NamedTemporaryFile raises (no usable name, no room): no file
CreateTempFails(r) ==
    /\ pc[r] = "create"
    /\ Holds(r)
    /\ Fail(r, CreateError)
    /\ UNCHANGED <<inputs, disconnected, fs, locals, calls>>

\* main.py:151-153  temp_file.write(audio_data) and the close at the end of `with`
WriteTemp(r) ==
    /\ pc[r] = "write"
    /\ Holds(r)
    /\ pc' = [pc EXCEPT ![r] = "call"]
    /\ UNCHANGED <<inputs, disconnected, loop, fs, locals, exc, calls, response>>

\* main.py:150-153  the write (or the flush on close) raises: `with` closes the
\* file, which delete=False keeps, and the try/finally of main.py:155 has not
\* been entered.
WriteTempFails(r) ==
    /\ pc[r] = "write"
    /\ Holds(r)
    /\ Fail(r, WriteError)
    /\ UNCHANGED <<inputs, disconnected, fs, locals, calls>>

\* main.py:155-170  open(temp_file_path) and the start of the synchronous
\* client.audio.transcriptions.create(...)
StartCall(r) ==
    /\ pc[r] = "call"
    /\ Holds(r)
    /\ IF fs[temp_file_path[r]] = None
       THEN /\ exc' = [exc EXCEPT ![r] = OpenError]
            /\ pc' = [pc EXCEPT ![r] = "cleanup"]
            /\ UNCHANGED calls
       ELSE /\ calls' = [calls EXCEPT ![r] = @ + 1]
            /\ pc' = [pc EXCEPT ![r] = "waiting"]
            /\ UNCHANGED exc
    /\ UNCHANGED <<inputs, disconnected, loop, fs, locals, response>>

\* main.py:166-189  the external service answers with the text of the audio in
\* the file it was sent
CallReturns(r) ==
    /\ pc[r] = "waiting"
    /\ Holds(r)
    /\ LET t == Transcript(fs[temp_file_path[r]])
       IN  /\ transcription' = [transcription EXCEPT ![r] = t]
           /\ result' = [result EXCEPT ![r] = TranscriptionResponse(t, size[r])]
    /\ pc' = [pc EXCEPT ![r] = "cleanup"]
    /\ UNCHANGED <<inputs, disconnected, loop, fs, file_extension, temp_file_path,
                   exc, calls, response>>

\* main.py:166-170  the external call raises
CallRaises(r) ==
    /\ pc[r] = "waiting"
    /\ Holds(r)
    /\ exc' = [exc EXCEPT ![r] = ApiError]
    /\ pc' = [pc EXCEPT ![r] = "cleanup"]
    /\ UNCHANGED <<inputs, disconnected, loop, fs, locals, calls, response>>

\* main.py:180-186  the answer holds no text: TranscriptionResponse(...) raises
BuildRaises(r) ==
    /\ pc[r] = "waiting"
    /\ Holds(r)
    /\ exc' = [exc EXCEPT ![r] = ValidationError]
    /\ pc' = [pc EXCEPT ![r] = "cleanup"]
    /\ UNCHANGED <<inputs, disconnected, loop, fs, locals, calls, response>>

\* main.py:189-205  leaving try/finally: the pending exception becomes a 500,
\* otherwise `return result`
Leave(r, pending) ==
    IF pending # NoException
    THEN Finish(r, TranscriptionFailed(pending))
    ELSE Finish(r, result[r])

\* main.py:191-195  finally: if os.path.exists(path): os.unlink(path)
Cleanup(r) ==
    /\ pc[r] = "cleanup"
    /\ Holds(r)
    /\ fs' = [fs EXCEPT ![temp_file_path[r]] = None]
    /\ Leave(r, exc[r])
    /\ UNCHANGED <<inputs, disconnected, locals, exc, calls>>

\* main.py:194  os.unlink raises: the file stays and its exception replaces
\* whatever the try block was leaving with
CleanupFails(r) ==
    /\ pc[r] = "cleanup"
    /\ Holds(r)
    /\ fs[temp_file_path[r]] # None
    /\ exc' = [exc EXCEPT ![r] = UnlinkError]
    /\ Leave(r, UnlinkError)
    /\ UNCHANGED <<inputs, disconnected, fs, locals, calls>>

\* One step of request r's handling.
Step(r) ==
    \/ health_check(r)
    \/ Validate(r)
    \/ Cancelled(r)
    \/ ReadAudio(r)
    \/ CreateTemp(r)
    \/ CreateTempFails(r)
    \/ WriteTemp(r)
    \/ WriteTempFails(r)
    \/ StartCall(r)
    \/ CallReturns(r)
    \/ CallRaises(r)
    \/ BuildRaises(r)
    \/ Cleanup(r)
    \/ CleanupFails(r)

Next ==
    \E r \in Requests : Arrive(r) \/ Disconnect(r) \/ Step(r)

Spec == Init /\ [][Next]_vars

\* One request at a time, over every filename and size case.
NextCases ==
    ArriveCase(1) \/ Disconnect(1) \/ Step(1)

SpecCases == Init /\ [][NextCases]_vars

\* ---------------------------------------------------------------- properties
Staged == {"write", "call", "waiting", "cleanup"}

\* r has left no file behind in the temporary directory
NoFileOf(r) == \A p \in Paths : fs[p] # r

Answered(r) == pc[r] = "done" /\ endpoint[r] = "transcribe"

\* C1: when the handler has returned its response, on every exit path, the
\* temporary file staged for the request no longer exists.
C1_StagedFileRemoved ==
    \A r \in Requests : Answered(r) => NoFileOf(r)

\* C2: a non-empty upload whose filename has no '.' is not rejected for its
\* format: its effective extension is '.m4a'.
C2_NoExtensionDefaultsToM4a ==
    \A r \in Requests :
        (Answered(r) /\ filename[r] # NoName /\ LastDot(filename[r]) = 0 /\ size[r] > 0)
        => /\ response[r] # UnsupportedFormatRejection
           /\ file_extension[r] = <<".","m","4","a">>

\* C3: while request a waits on the external service, any other request that
\* has arrived (health or transcribe) can take its next step.
C3_ExternalCallDoesNotBlock ==
    \A a, b \in Requests :
        (a # b /\ pc[a] = "waiting" /\ pc[b] \in {"queued", "read"})
        => ENABLED Step(b)

C5_FailureIs500WithMessage ==
    \A r \in Requests :
        /\ calls[r] <= 1
        /\ (Answered(r) /\ exc[r] # NoException) =>
             /\ response[r].status = 500
             /\ response[r].error = <<"Transcription failed: ", exc[r]>>
        /\ (Answered(r) /\ response[r].status = 500) => exc[r] # NoException

C5_Witness ==
    /\ Answered(1) /\ exc[1] = ApiError /\ calls[1] = 1 /\ response[1].status = 500
    /\ Answered(2) /\ exc[2] = WriteError /\ response[2].status = 500

\* C6: two requests in flight never hold the same staged path, the file a
\* request holds stays its own (nobody else removes or overwrites it), and each
\* request goes on to its own response whatever became of the others.
C6_RequestsIndependent ==
    \A r \in Requests :
        /\ pc[r] \in Staged =>
             /\ fs[temp_file_path[r]] = r
             /\ \A q \in Requests \ {r} :
                  pc[q] \in Staged => temp_file_path[q] # temp_file_path[r]
        /\ (pc[r] \in {"queued", "read"} /\ loop[worker[r]] = None) => ENABLED Step(r)
        /\ pc[r] \in ({"create"} \cup Staged) => ENABLED Step(r)
        /\ (Answered(r) /\ response[r].status = 200) => response[r].text = Transcript(r)

C6_Witness ==
    \E a, b \in Requests :
        /\ a # b
        /\ pc[a] = "cleanup" /\ exc[a] = ApiError
        /\ pc[b] = "waiting"
        /\ temp_file_path[a] # temp_file_path[b]

\* The filenames f.e of the cases, e a supported extension in some letter case.
SupportedNameCases ==
    { <<"f",".","m","4","a">>, <<"f",".","m","p","3">>, <<"f",".","w","a","v">>,
      <<"f",".","o","g","g">>, <<"f",".","w","e","b","m">>,
      <<"F",".","M","P","3">>, <<"a",".","W","e","B","m">>, <<"A",".","O","G","G">>,
      <<"v",".","M","4","a">>, <<"x",".","W","A","V">> }

IsSuccess(r) ==
    /\ response[r].status = 200
    /\ response[r].model_used = "gpt-4o-mini-transcribe"
    /\ response[r].text = transcription[r]

\* C7 as claimed: a non-empty file named f.e, e supported in any letter case,
\* whose staging and external call succeed, is answered 200 with model_used
\* "gpt-4o-mini-transcribe" and the text the external service returned.
C7_SupportedSucceeds ==
    \A r \in Requests :
        (Answered(r) /\ filename[r] \in SupportedNameCases /\ size[r] > 0)
        => /\ response[r].status # 400
           /\ transcription[r] # NoText => IsSuccess(r)

\* C7 as amended: the same, when the deletion of the staged file succeeds too.
C7_SupportedSucceedsIfCleanedUp ==
    \A r \in Requests :
        (Answered(r) /\ filename[r] \in SupportedNameCases /\ size[r] > 0)
        => /\ response[r].status # 400
           /\ (transcription[r] # NoText /\ NoFileOf(r)) => IsSuccess(r)

C7_Witness ==
    /\ Answered(1) /\ filename[1] = <<"F",".","M","P","3">>
    /\ IsSuccess(1) /\ NoFileOf(1)

\* |a|
Abs(a) == IF a < 0 THEN 0 - a ELSE a

\* C8 as claimed: estimated_cost is the reported estimated_minutes times 0.003,
\* rounded to 6 decimals (30 millionths for each hundredth of a minute).
C8_CostOfReportedMinutes ==
    \A r \in Requests :
        (Answered(r) /\ response[r].status = 200)
        => response[r].estimated_cost * 100 = response[r].estimated_minutes * 3000

\* C8 as amended: with m = max(size_in_MB / 0.5, 0.1), not rounded,
\* estimated_cost is m * 0.003 rounded to 6 decimals and estimated_minutes is m
\* rounded to 2 decimals.
C8_CostOfUnroundedMinutes ==
    \A r \in Requests :
        (Answered(r) /\ response[r].status = 200)
        => IF size[r] * 10 < 524288
           THEN /\ response[r].estimated_minutes = 10
                /\ response[r].estimated_cost = 300
           ELSE /\ 2 * Abs(response[r].estimated_minutes * 524288 - size[r] * 100) <= 524288
                /\ 2 * Abs(response[r].estimated_cost * 65536 - size[r] * 375) <= 65536

C8_Witness ==
    /\ Answered(1) /\ response[1].status = 200 /\ size[1] = 64725
    /\ response[1].estimated_minutes = 12
    /\ response[1].estimated_cost = 370

\* C9: when the caller disconnects after the staged file was created, the
\* external call and the deletion still run, and no staged file is left.
C9_DisconnectedStillCleansUp ==
    \A r \in Requests :
        (Answered(r) /\ disconnected[r]) => (calls[r] = 1 /\ NoFileOf(r))

\* C10: a request answered with a 400 rejection never had a temporary file
\* created for it and never invoked the external service.
C10_RejectionHasNoSideEffect ==
    \A r \in Requests :
        (Answered(r) /\ response[r].status = 400)
        => /\ temp_file_path[r] = None
           /\ NoFileOf(r)
           /\ calls[r] = 0

C10_Witness ==
    /\ Answered(1) /\ response[1] = EmptyFileRejection
    /\ Answered(2) /\ response[2] = UnsupportedFormatRejection
    /\ temp_file_path[1] = None /\ calls[1] = 0

====
